---- MODULE Spec2Model ----
(***************************************************************************)
(* FoodOPS turn settlement: demand allocation (core/market.py), the        *)
(* finished-goods inventory (domain/inventory.py), the service-minute      *)
(* clamp, the loss attributor and the turn loop (core/game.py).            *)
(*                                                                         *)
(* Numbers.  Prices are whole euros, so a revenue is an exact integer and  *)
(* round(revenue, 2) changes nothing.  Notoriety is kept in thousandths    *)
(* (the code rounds it to 3 decimals).  Scores are kept in 1/10000.        *)
(***************************************************************************)
EXTENDS Integers, Sequences, FiniteSets, TLC

VARIABLES
    restaurants,      \* Game.restaurants: sequence of vendor records
    scenario,         \* Game.scenario
    current_tour,     \* Game.current_tour
    pc,               \* position of Game.play
    attrib,           \* allocate_demand result of the running turn
    served_cap,       \* clamp_capacity result of the running turn
    index_restaurant, \* vendor settled last in the running turn
    scoring_weights,  \* rules.scoring.SCORING_WEIGHTS, the module's table
    ledger,           \* entries of a Ledger driven on its own (SpecLedger)
    turn_log,         \* what the running turn has printed: one record per vendor settled
    call              \* the last operation: name, arguments, results

vars == <<restaurants, scenario, current_tour, pc, attrib, served_cap,
          index_restaurant, scoring_weights, ledger, turn_log,
          call>>

\* ------------------------------------------------------------------------
\* Bounds of the model
\* ------------------------------------------------------------------------
MaxInvTour == 2
MaxLots == 2
MaxPortions == 2
MaxQty == 2
MaxLossQty == 2
MaxLossTurns == 2

\* ------------------------------------------------------------------------
\* Arithmetic helpers
\* ------------------------------------------------------------------------
Min(a, b) == IF a <= b THEN a ELSE b
Max(a, b) == IF a >= b THEN a ELSE b

RECURSIVE SumSeq(_)
SumSeq(s) == IF s = <<>> THEN 0 ELSE Head(s) + SumSeq(Tail(s))

\* Sequence s without its i-th element (list.pop(i)).
Pop(s, i) == [k \in 1..(Len(s) - 1) |-> IF k < i THEN s[k] ELSE s[k + 1]]

\* Mutant: the quotient is cut, not rounded.
RoundTie_floor(num, den, tie) == num \div den

\* round(num / den) to the nearest integer, num >= 0, den > 0.  An exact tie
\* is decided by the binary representation of the float operand, which is not
\* computable here: tie = 0 rounds the tie down, tie = 1 rounds it up.
RoundTie(num, den, tie) ==
    LET q == num \div den
        r == num % den
    IN  IF 2 * r > den THEN q + 1
        ELSE IF 2 * r < den THEN q
        ELSE q + tie

\* Python round() of an exactly representable x.5: half to even.
RoundHalfEven(num, den) ==
    LET q == num \div den
    IN  RoundTie(num, den, q % 2)

\* ------------------------------------------------------------------------
\* domain/inventory.py: FinishedBatch and Inventory.finished
\* ------------------------------------------------------------------------
FinishedBatch(recipe_name, selling_price, portions, produced_tour, expires_tour) ==
    [recipe_name |-> recipe_name, selling_price |-> selling_price,
     portions |-> portions, produced_tour |-> produced_tour,
     expires_tour |-> expires_tour]

is_expired(b, tour) == tour > b.expires_tour

add_finished_lot(finished, recipe_name, selling_price, portions, produced_tour, shelf_tours) ==
    Append(finished,
           FinishedBatch(recipe_name, selling_price, portions, produced_tour,
                         produced_tour + Max(0, shelf_tours)))

\* total_finished_portions(current_tour = t): expired lots are skipped.
RECURSIVE total_finished_portions_at(_, _)
total_finished_portions_at(finished, tour) ==
    IF finished = <<>> THEN 0
    ELSE (IF is_expired(Head(finished), tour) THEN 0
          ELSE Max(0, Head(finished).portions))
         + total_finished_portions_at(Tail(finished), tour)

\* total_finished_portions() with current_tour = None: no lot is skipped.
RECURSIVE total_finished_portions(_)
total_finished_portions(finished) ==
    IF finished = <<>> THEN 0
    ELSE Max(0, Head(finished).portions) + total_finished_portions(Tail(finished))

\* Mutant: the whole lot is taken, whatever is still needed.
TakeFromLot_whole(b, need) == b.portions

\* take = min(b.portions, need)
TakeFromLot(b, need) == Min(b.portions, need)

\* Mutant: a lot the sale has emptied stays in the list.
RECURSIVE SellLoop_keep_depleted(_, _, _, _, _, _)
SellLoop_keep_depleted(finished, i, need, sold, revenue, log) ==
    IF ~(i <= Len(finished) /\ need > 0)
    THEN [finished |-> finished, sold |-> sold, revenue |-> revenue, log |-> log]
    ELSE LET b == finished[i]
         IN  IF b.portions <= 0
             THEN SellLoop_keep_depleted(Pop(finished, i), i, need, sold, revenue, log)
             ELSE LET take == Min(b.portions, need)
                      left == b.portions - take
                  IN  SellLoop_keep_depleted([finished EXCEPT ![i].portions = left],
                                             i + 1, need - take, sold + take,
                                             revenue + take * b.selling_price,
                                             Append(log, [lot |-> b, units |-> take]))

\* The while loop of Inventory.sell_from_finished_fifo.  log records, in
\* order, the lots the loop took units from (lot, units).
RECURSIVE SellLoop(_, _, _, _, _, _)
SellLoop(finished, i, need, sold, revenue, log) ==
    IF ~(i <= Len(finished) /\ need > 0)
    THEN [finished |-> finished, sold |-> sold, revenue |-> revenue, log |-> log]
    ELSE LET b == finished[i]
         IN  IF b.portions <= 0
             THEN SellLoop(Pop(finished, i), i, need, sold, revenue, log)
             ELSE LET take == TakeFromLot(b, need)
                      left == b.portions - take
                      fin2 == IF left <= 0 THEN Pop(finished, i)
                              ELSE [finished EXCEPT ![i].portions = left]
                      i2   == IF left <= 0 THEN i ELSE i + 1
                  IN  SellLoop(fin2, i2, need - take, sold + take,
                               revenue + take * b.selling_price,
                               Append(log, [lot |-> b, units |-> take]))

\* Mutant: the loop starts at the second lot.
sell_from_finished_fifo_skip_first(finished, qty_portions) ==
    SellLoop(finished, 2, qty_portions, 0, 0, <<>>)

sell_from_finished_fifo(finished, qty_portions) ==
    SellLoop(finished, 1, qty_portions, 0, 0, <<>>)

\* Mutant: a lot is dropped from its expiry turn on.
cleanup_expired_at_expiry(finished, tour) ==
    SelectSeq(finished, LAMBDA b : tour < b.expires_tour)

cleanup_expired(finished, tour) ==
    SelectSeq(finished, LAMBDA b : ~is_expired(b, tour))

\* Mutant: delta = 0.02 * frac * 100 without the cap at 0.10.
NotorietyPenalised_uncapped(noto, asked, lost, tie) ==
    IF 2 * lost >= asked THEN 0
    ELSE RoundTie(noto * (asked - 2 * lost), asked, tie)

\* round(noto * (1.0 - delta), 3) with frac = lost / asked and
\* delta = min(0.10, 0.02 * frac * 100.0), in thousandths: the cap applies
\* from frac = 1/20 on.
NotorietyPenalised(noto, asked, lost, tie) ==
    IF 20 * lost >= asked
    THEN RoundTie(9 * noto, 10, tie)
    ELSE RoundTie(noto * (asked - 2 * lost), asked, tie)

\* ------------------------------------------------------------------------
\* core/game.py: the loss attributor
\* ------------------------------------------------------------------------
\* The notoriety update of _apply_client_losses, in thousandths:
\* delta = min(0.10, 0.02 * frac * 100) with frac = min(1, total_lost/asked),
\* then max(0, min(1, round(noto * (1 - delta), 3))).
\* Mutant: the penalty is subtracted as points and the result is not clamped.
NotorietyAfterLoss_subtract(noto, asked, total_lost, tie) ==
    IF asked > 0 /\ total_lost > 0
    THEN LET lost == Min(total_lost, asked)
         IN  IF 20 * lost >= asked THEN noto - 100
             ELSE noto - RoundTie(2000 * lost, asked, tie)
    ELSE noto

NotorietyAfterLoss(noto, asked, total_lost, tie) ==
    IF asked > 0 /\ total_lost > 0
    THEN Max(0, Min(1000, NotorietyPenalised(noto, asked, Min(total_lost, asked), tie)))
    ELSE noto

\* Mutant: each constraint is measured against the demand on its own, as in
\* the breakdown Game.play computes before the sale.
apply_client_losses_per_constraint(restaurant, demanded, capacity_rh, cap_service, available_finished, sold, tie) ==
    LET lost_stock == Max(0, demanded - Min(demanded, available_finished))
        lost_capacity == Max(0, demanded - Min(demanded, cap_service))
        lost_other == Max(0, demanded - sold - Max(lost_stock, lost_capacity))
    IN  [restaurant |-> restaurant,
         losses |-> [lost_total |-> lost_stock + lost_capacity + lost_other,
                     lost_stock |-> lost_stock, lost_capacity |-> lost_capacity,
                     lost_other |-> lost_other]]

apply_client_losses(restaurant, demanded, capacity_rh, cap_service, available_finished, sold, tie) ==
    LET asked == Max(0, demanded)
        cap_stage == Max(0, Min(asked, capacity_rh))
        cap_service_stage == Max(0, Min(cap_stage, cap_service))
        stock_stage == Max(0, Min(cap_service_stage, available_finished))
        served == Max(0, sold)
        lost_stock == Max(0, stock_stage - served)
        lost_capacity == Max(0, cap_service_stage - stock_stage)
        lost_other == Max(0, asked - Max(served, cap_service_stage))
        total_lost == lost_stock + lost_capacity + lost_other
    IN  [restaurant |-> [restaurant EXCEPT
                            !.notoriety = NotorietyAfterLoss(@, asked, total_lost, tie)],
         losses |-> [lost_total |-> total_lost, lost_stock |-> lost_stock,
                     lost_capacity |-> lost_capacity, lost_other |-> lost_other]]


NoCall == [op |-> "none"]
NoScenario == [population_total |-> 0, segments_share |-> <<>>, nb_tours |-> 1]

\* ------------------------------------------------------------------------
\* domain/restaurant.py: the vendor aggregate
\* ------------------------------------------------------------------------
\* domain/staff.py: the minutes an employee brings per turn, by role
\* (ROLE_PRODUCTIVITY, productivite_bonus = 1, present).
Employe(role) ==
    [role |-> role,
     service_minutes |-> IF role = "SERVEUR" THEN 480
                         ELSE IF role = "MANAGER" THEN 120 ELSE 0,
     kitchen_minutes |-> IF role = "CUISINIER" THEN 480
                         ELSE IF role = "MANAGER" THEN 120 ELSE 0]

\* notoriety is in thousandths, rh_satisfaction in hundredths; equipe is
\* the list of employees and finished is inventory.finished.  The minutes
\* left are 0 until reset_rh_minutes is called.
Restaurant(type, capacite_clients, visibility, menu, notoriety, rh_satisfaction, equipe, finished) ==
    [type |-> type, capacite_clients |-> capacite_clients,
     visibility |-> visibility, menu |-> menu, notoriety |-> notoriety,
     rh_satisfaction |-> rh_satisfaction,
     equipe |-> equipe,
     service_minutes_left |-> 0,
     kitchen_minutes_left |-> 0,
     finished |-> finished]

reset_rh_minutes(restaurant) ==
    [restaurant EXCEPT
        !.service_minutes_left =
            SumSeq([k \in DOMAIN restaurant.equipe |-> restaurant.equipe[k].service_minutes]),
        !.kitchen_minutes_left =
            SumSeq([k \in DOMAIN restaurant.equipe |-> restaurant.equipe[k].kitchen_minutes])]

consume_service_minutes(restaurant, minutes) ==
    [restaurant EXCEPT !.service_minutes_left = Max(0, @ - minutes)]

\* ratio = used / total (0 when total is 0), total being the minutes left
\* and used the minutes of the team; the thresholds 0.95, 0.85, 0.35, 0.55
\* are compared on 100 * used against the threshold x total.
update_rh_satisfaction(restaurant) ==
    LET total == restaurant.service_minutes_left + restaurant.kitchen_minutes_left
        used == SumSeq([k \in DOMAIN restaurant.equipe |->
                           restaurant.equipe[k].service_minutes
                           + restaurant.equipe[k].kitchen_minutes])
        u == IF total = 0 THEN 0 ELSE 100 * used
        delta == IF u > 95 * total THEN 0 - 6
                 ELSE IF u > 85 * total THEN 0 - 3
                 ELSE IF u < 35 * total \/ total = 0 THEN 0 - 2
                 ELSE IF u < 55 * total THEN 1
                 ELSE 2
    IN  [restaurant EXCEPT !.rh_satisfaction = Max(0, Min(100, @ + delta))]

get_available_portions(restaurant) == total_finished_portions(restaurant.finished)

\* service_minutes_left = float("inf"): minutes without a bound.  The code
\* never makes the minutes negative, so -1 stands for it.
Inf == 0 - 1

\* SERVICE_MINUTES_PER_COVER of the vendor's class, in half minutes
\* (1.5, 4.0 and 7.0; 0.0 in the base class).
ServiceMinutesPerCover2(type) ==
    IF type = "FAST_FOOD" THEN 3
    ELSE IF type = "BISTRO" THEN 8
    ELSE IF type = "GASTRO" THEN 14
    ELSE 0

\* ------------------------------------------------------------------------
\* rules/scoring.py: the attraction score, in 1/10000
\* ------------------------------------------------------------------------
clamp01(x) == IF x < 0 THEN 0 ELSE IF x > 10000 THEN 10000 ELSE x

MenuItem(price, base_quality, grade_hint) ==
    [price |-> price, base_quality |-> base_quality, grade_hint |-> grade_hint]

\* Twice the median of the menu prices (np.median averages the two middle
\* prices of an even-sized menu); 0 for an empty menu.
MedianPrice2(menu) ==
    IF menu = <<>> THEN 0
    ELSE LET prices == SortSeq([k \in DOMAIN menu |-> menu[k].price],
                               LAMBDA a, b : a < b)
             n == Len(prices)
         IN  IF n % 2 = 1 THEN 2 * prices[(n + 1) \div 2]
             ELSE prices[n \div 2] + prices[n \div 2 + 1]

\* The normalisation of a grade hint in _apply_concept_quality_adjust:
\* "G3" and "G5" are kept, "FRESH"/"FRAIS" become "G1", and every other hint,
\* "G1" included, is undetermined.
HintNorm(hint) ==
    IF hint \in {"FRESH", "FRAIS"} THEN "G1"
    ELSE IF hint \in {"FROZEN", "SURGELE", "G3"} THEN "G3"
    ELSE IF hint \in {"SOUSVIDE", "SOUS_VIDE", "G5"} THEN "G5"
    ELSE "None"

\* _CONCEPT_EXPECTATION_PENALTY, in hundredths.  The rows are keyed by
\* "Fast Food", "Bistrot" and "Gastronomique"; the lookup is by resto.type.value
\* ("FAST_FOOD", "BISTRO", "GASTRO") and any other key gets the Bistrot row.
ConceptExpectationPenalty(type, hint) ==
    IF type = "Fast Food"
    THEN (IF hint = "G5" THEN 95 ELSE IF hint = "G1" THEN 100
          ELSE IF hint = "G3" THEN 95 ELSE 98)
    ELSE IF type = "Gastronomique"
    THEN (IF hint = "G5" THEN 100 ELSE IF hint = "G1" THEN 100
          ELSE IF hint = "G3" THEN 85 ELSE 92)
    ELSE (IF hint = "G5" THEN 98 ELSE IF hint = "G1" THEN 100
          ELSE IF hint = "G3" THEN 95 ELSE 98)

\* base_quality is in hundredths.
menu_quality_mean(resto) ==
    IF resto.menu = <<>> THEN 0
    ELSE LET qualities ==
                 [k \in DOMAIN resto.menu |->
                     clamp01((clamp01(100 * resto.menu[k].base_quality)
                              * ConceptExpectationPenalty(resto.type,
                                                          HintNorm(resto.menu[k].grade_hint)))
                             \div 100)]
             qmean == SumSeq(qualities) \div Max(1, Len(qualities))
         IN  clamp01((qmean * clamp01(100 * resto.rh_satisfaction)) \div 10000)

\* price2 is twice the price.
price_fit(price2, budget_moyen) ==
    IF budget_moyen <= 0 THEN 0
    ELSE IF price2 <= 2 * budget_moyen THEN 10000
    ELSE clamp01((10000 * (4 * budget_moyen - price2)) \div (2 * budget_moyen))

\* _CONCEPT_FIT, in 1/10000.  The rows are keyed as above, so a type value
\* outside them gets the Bistrot row; the student column is keyed with an
\* accent, so the segment value "etudiant" gets the default 0.6 in every row.
ConceptFit(type, seg) ==
    IF type = "Fast Food"
    THEN (IF seg = "actif" THEN 6000
          ELSE IF seg = "famille" THEN 6000 ELSE IF seg = "touriste" THEN 5000
          ELSE IF seg = "senior" THEN 4000 ELSE 6000)
    ELSE IF type = "Gastronomique"
    THEN (IF seg = "actif" THEN 6000
          ELSE IF seg = "famille" THEN 7000 ELSE IF seg = "touriste" THEN 8500
          ELSE IF seg = "senior" THEN 8000 ELSE 6000)
    ELSE (IF seg = "actif" THEN 8000
          ELSE IF seg = "famille" THEN 7500 ELSE IF seg = "touriste" THEN 7000
          ELSE IF seg = "senior" THEN 7000 ELSE 6000)

visibility_norm(resto) == clamp01(2000 * resto.visibility)

\* Average budget of a segment, in euros (15 when the segment is unknown).
SegmentBudget(seg) ==
    IF seg = "etudiant" THEN 10 ELSE IF seg = "actif" THEN 18
    ELSE IF seg = "famille" THEN 55 ELSE IF seg = "touriste" THEN 28
    ELSE IF seg = "senior" THEN 20 ELSE 15

\* SCORING_WEIGHTS as the module defines it, in hundredths.
SCORING_WEIGHTS ==
    [fit |-> 25, prix |-> 25, qualite |-> 25, notoriete |-> 15, visibilite |-> 10]

\* The keys attraction_score reads with w["..."].
WeightKeys == {"fit", "prix", "qualite", "notoriete", "visibilite"}

\* w[key] on a dict without the key raises KeyError.
attraction_score_raises(w) == \E key \in WeightKeys : key \notin DOMAIN w

\* attraction_score with the weights table w holding every key.
attraction_score_under(resto, seg, w) ==
    LET fit == ConceptFit(resto.type, seg)
        prix_ok == price_fit(MedianPrice2(resto.menu), SegmentBudget(seg))
        qmean == menu_quality_mean(resto)
        notoriety == clamp01(10 * resto.notoriety)
        vis == visibility_norm(resto)
    IN  clamp01((w.fit * fit + w.prix * prix_ok + w.qualite * qmean
                 + w.notoriete * notoriety + w.visibilite * vis)
                \div 100)

attraction_score(resto, seg) == attraction_score_under(resto, seg, SCORING_WEIGHTS)

\* ------------------------------------------------------------------------
\* core/market.py: demand allocation
\* ------------------------------------------------------------------------
\* SERVICE_SPEED, in percent.
ServiceSpeed(type) ==
    IF type = "FAST_FOOD" THEN 100
    ELSE IF type = "BISTRO" THEN 80
    ELSE IF type = "GASTRO" THEN 50
    ELSE 100

\* Mutant: the speed coefficient of the vendor's type is left out.
compute_exploitable_capacity_no_speed(restaurant) ==
    Max(0, restaurant.capacite_clients * 2 * 30)

compute_exploitable_capacity(restaurant) ==
    LET base_monthly_capacity == restaurant.capacite_clients * 2 * 30
        exploitable_capacity == base_monthly_capacity * ServiceSpeed(restaurant.type)
    IN  IF exploitable_capacity <= 0 THEN 0 ELSE exploitable_capacity \div 100

\* Mutant: the cheapest item of the menu is compared instead of the median.
is_eligible_by_budget_cheapest(restaurant, segment) ==
    \/ restaurant.menu = <<>>
    \/ \E k \in DOMAIN restaurant.menu :
          10 * restaurant.menu[k].price <= 12 * SegmentBudget(segment)

\* price <= budget * BUDGET_TOLERANCE with BUDGET_TOLERANCE = 1.20, on twice
\* the price: price2 / 2 <= budget * 12 / 10.
is_eligible_by_budget(restaurant, segment) ==
    5 * MedianPrice2(restaurant.menu) <= 12 * SegmentBudget(segment)

count_restaurants_types(restos, type) ==
    Cardinality({k \in DOMAIN restos : restos[k].type = type})

\* Largest r with r * r <= x.
ISqrt(x) == CHOOSE r \in 0..10000 : r * r <= x /\ (r + 1) * (r + 1) > x

\* 1 / max(1, sqrt(1 + CANNI_ALPHA * (n - 1))) with CANNI_ALPHA = 0.50, in
\* 1/10000: 1 + (n - 1) / 2 = (n + 1) / 2.
CanniTable == [n \in 2..8 |-> ISqrt(200000000 \div (n + 1))]

\* Mutant: n counts every vendor of the market, whatever its concept.
cannibalization_factor_all_vendors(resto, restos) ==
    LET n == Len(restos)
    IN  IF n <= 1 THEN 10000 ELSE CanniTable[n]

cannibalization_factor(resto, restos) ==
    LET n == count_restaurants_types(restos, resto.type)
    IN  IF n <= 1 THEN 10000 ELSE CanniTable[n]

compute_segment_quantities(sc) ==
    [k \in DOMAIN sc.segments_share |->
        [segment |-> sc.segments_share[k][1],
         quantity |-> RoundHalfEven(sc.population_total * sc.segments_share[k][2], 100)]]

\* Mutant: x goes in front of the entries of equal score.
RECURSIVE InsertRanked_before_equal(_, _)
InsertRanked_before_equal(sorted, x) ==
    IF sorted = <<>> THEN <<x>>
    ELSE IF Head(sorted)[2] > x[2]
         THEN <<Head(sorted)>> \o InsertRanked_before_equal(Tail(sorted), x)
         ELSE <<x>> \o sorted

\* list.sort(key = score, reverse = True): a stable sort, so entries of equal
\* score keep their order.  InsertRanked puts x behind every entry whose
\* score is at least x's.
RECURSIVE InsertRanked(_, _)
InsertRanked(sorted, x) ==
    IF sorted = <<>> THEN <<x>>
    ELSE IF Head(sorted)[2] >= x[2]
         THEN <<Head(sorted)>> \o InsertRanked(Tail(sorted), x)
         ELSE <<x>> \o sorted

RECURSIVE SortRanked(_)
SortRanked(ranked) ==
    IF ranked = <<>> THEN <<>>
    ELSE InsertRanked(SortRanked(SubSeq(ranked, 1, Len(ranked) - 1)),
                      ranked[Len(ranked)])

ranked_for_segment(restos, segment) ==
    LET eligible == SelectSeq([k \in DOMAIN restos |-> k],
                              LAMBDA k : is_eligible_by_budget(restos[k], segment))
        ranked == [j \in DOMAIN eligible |->
                      <<eligible[j],
                        Max(0, attraction_score(restos[eligible[j]], segment))
                        * cannibalization_factor(restos[eligible[j]], restos)>>]
    IN  SortRanked(ranked)

\* Mutant: the walk stops behind the first vendor that took customers.
RECURSIVE WalkRanked_first_only(_, _, _, _, _)
WalkRanked_first_only(ranked, k, remaining, capacity_left, takes) ==
    IF k > Len(ranked) \/ remaining <= 0
    THEN [remaining |-> remaining, capacity_left |-> capacity_left, takes |-> takes]
    ELSE LET idx == ranked[k][1]
         IN  IF capacity_left[idx] <= 0
             THEN WalkRanked_first_only(ranked, k + 1, remaining, capacity_left, takes)
             ELSE LET take == Min(remaining, capacity_left[idx])
                  IN  [remaining |-> remaining - take,
                       capacity_left |-> [i \in DOMAIN capacity_left |-> IF i = idx THEN capacity_left[i] - take ELSE capacity_left[i]],
                       takes |-> [i \in DOMAIN takes |-> IF i = idx THEN takes[i] + take ELSE takes[i]]]

\* The greedy walk of one segment over the ranked vendors (lines 324-338).
\* takes[i] is what vendor i received from this segment.
RECURSIVE WalkRanked(_, _, _, _, _)
WalkRanked(ranked, k, remaining, capacity_left, takes) ==
    IF k > Len(ranked) \/ remaining <= 0
    THEN [remaining |-> remaining, capacity_left |-> capacity_left, takes |-> takes]
    ELSE LET idx == ranked[k][1]
         IN  IF capacity_left[idx] <= 0
             THEN WalkRanked(ranked, k + 1, remaining, capacity_left, takes)
             ELSE LET take == Min(remaining, capacity_left[idx])
                  IN  WalkRanked(ranked, k + 1, remaining - take,
                                 [i \in DOMAIN capacity_left |-> IF i = idx THEN capacity_left[i] - take ELSE capacity_left[i]],
                                 [i \in DOMAIN takes |-> IF i = idx THEN takes[i] + take ELSE takes[i]])

\* Mutant: the pass starts at the second vendor of the ranking.
WalkSegment_skip_best(restos, d, capacity_left) ==
    LET zero == [i \in DOMAIN restos |-> 0]
        ranked == IF d.quantity <= 0 THEN <<>> ELSE ranked_for_segment(restos, d.segment)
        w == IF d.quantity <= 0 \/ ranked = <<>>
             THEN [remaining |-> d.quantity, capacity_left |-> capacity_left,
                   takes |-> zero]
             ELSE WalkRanked(ranked, 2, d.quantity, capacity_left, zero)
    IN  [segment |-> d.segment, quantity |-> d.quantity, ranked |-> ranked,
         takes |-> w.takes, capacity_before |-> capacity_left,
         capacity_after |-> w.capacity_left, remaining |-> w.remaining]

\* One pass of the loop over the segments (lines 312-338): the record of
\* what the pass did for the segment d, starting from capacity_left.
WalkSegment(restos, d, capacity_left) ==
    LET zero == [i \in DOMAIN restos |-> 0]
        ranked == IF d.quantity <= 0 THEN <<>> ELSE ranked_for_segment(restos, d.segment)
        w == IF d.quantity <= 0 \/ ranked = <<>>
             THEN [remaining |-> d.quantity, capacity_left |-> capacity_left,
                   takes |-> zero]
             ELSE WalkRanked(ranked, 1, d.quantity, capacity_left, zero)
    IN  [segment |-> d.segment, quantity |-> d.quantity, ranked |-> ranked,
         takes |-> w.takes, capacity_before |-> capacity_left,
         capacity_after |-> w.capacity_left, remaining |-> w.remaining]

\* Mutant: every segment starts from the vendors' full capacity.
RECURSIVE SegmentLoop_fresh_capacity(_, _, _, _, _)
SegmentLoop_fresh_capacity(restos, demand, s, capacity0, walks) ==
    IF s > Len(demand) THEN walks
    ELSE SegmentLoop_fresh_capacity(restos, demand, s + 1, capacity0,
                     Append(walks, WalkSegment(restos, demand[s], capacity0)))

\* The loop over the segments, in the scenario's declared order.  walks
\* holds the passes done so far; the capacity left is the one the last pass
\* ended with.
RECURSIVE SegmentLoop(_, _, _, _, _)
SegmentLoop(restos, demand, s, capacity0, walks) ==
    IF s > Len(demand) THEN walks
    ELSE SegmentLoop(restos, demand, s + 1, capacity0,
                     Append(walks,
                            WalkSegment(restos, demand[s],
                                        IF walks = <<>> THEN capacity0
                                        ELSE walks[Len(walks)].capacity_after)))

\* allocated[i]: the sum of what vendor i took in every pass.
AllocatedOf(restos, walks) ==
    [i \in DOMAIN restos |-> SumSeq([s \in DOMAIN walks |-> walks[s].takes[i]])]

\* Mutant: the remaining capacity is written back to the vendors.
allocate_demand_writes_capacity(restos, sc) ==
    LET walks == SegmentLoop(restos, compute_segment_quantities(sc), 1,
                             [i \in DOMAIN restos |-> compute_exploitable_capacity(restos[i])],
                             <<>>)
    IN  [allocated |-> AllocatedOf(restos, walks), walks |-> walks,
         restaurants |->
            [i \in DOMAIN restos |->
                [restos[i] EXCEPT !.capacite_clients =
                    IF walks = <<>> THEN @
                    ELSE walks[Len(walks)].capacity_after[i] \div 60]]]

\* restaurants is the vendor list as the call leaves it: allocate_demand
\* only reads the vendors.
allocate_demand(restos, sc) ==
    LET walks == SegmentLoop(restos, compute_segment_quantities(sc), 1,
                             [i \in DOMAIN restos |-> compute_exploitable_capacity(restos[i])],
                             <<>>)
    IN  [allocated |-> AllocatedOf(restos, walks), walks |-> walks,
         restaurants |-> restos]

\* Mutant: the allocation is returned as it is.
clamp_capacity_identity(restos, allocated) ==
    [i \in DOMAIN restos |-> allocated[i]]

clamp_capacity(restos, allocated) ==
    [i \in DOMAIN restos |->
        Min(allocated[i], compute_exploitable_capacity(restos[i]))]

\* ------------------------------------------------------------------------
\* core/game.py: the helpers of the turn loop
\* ------------------------------------------------------------------------
\* The sale helper of the turn loop: the early return, then the same loop
\* over inventory.finished as Inventory.sell_from_finished_fifo.
game_sell_from_finished_fifo(restaurant, quantity) ==
    IF restaurant.finished = <<>> \/ quantity <= 0
    THEN [finished |-> restaurant.finished, sold |-> 0, revenue |-> 0, log |-> <<>>]
    ELSE SellLoop(restaurant.finished, 1, quantity, 0, 0, <<>>)

\* Mutant: the quotient is rounded up.
service_capacity_with_minutes_ceil(restaurant, clients_cap) ==
    LET min_per_cover2 == ServiceMinutesPerCover2(restaurant.type)
    IN  IF restaurant.service_minutes_left = Inf \/ min_per_cover2 <= 0 THEN clients_cap
        ELSE Min((2 * restaurant.service_minutes_left + min_per_cover2 - 1)
                     \div min_per_cover2, clients_cap)

\* min(minutes_left // min_per_cover, clients_cap); clients_cap when the
\* minutes are unbounded or the class has no minutes per cover.
service_capacity_with_minutes(restaurant, clients_cap) ==
    LET min_per_cover2 == ServiceMinutesPerCover2(restaurant.type)
    IN  IF restaurant.service_minutes_left = Inf \/ min_per_cover2 <= 0 THEN clients_cap
        ELSE Min((2 * restaurant.service_minutes_left) \div min_per_cover2, clients_cap)

\* need = int(round(min_per_cover * clients_served)); the minutes are taken
\* by restaurant.consume_service_minutes(need) and then once more by the
\* assignment that follows it.
game_consume_service_minutes(restaurant, clients_served) ==
    LET need == RoundHalfEven(ServiceMinutesPerCover2(restaurant.type)
                              * Max(0, clients_served), 2)
        r1 == consume_service_minutes(restaurant, need)
    IN  [r1 EXCEPT !.service_minutes_left = Max(0, @ - need)]

\* Mutant: the sale is asked for the whole allocation, without the clamp by
\* service minutes and available portions.
settle_vendor_unclamped(restaurant, clients_demandes, capacite_max_clients, tie) ==
    LET capacite_service_clients ==
            service_capacity_with_minutes(restaurant, capacite_max_clients)
        portions_finies_disponibles == get_available_portions(restaurant)
        clients_reellement_servis == clients_demandes
        r1 == game_consume_service_minutes(restaurant, clients_reellement_servis)
        sale == game_sell_from_finished_fifo(r1, clients_reellement_servis)
        r2 == [r1 EXCEPT !.finished = sale.finished]
        loss == apply_client_losses(r2, clients_demandes, capacite_max_clients,
                                    capacite_service_clients,
                                    portions_finies_disponibles, sale.sold, tie)
    IN  [restaurant |-> update_rh_satisfaction(loss.restaurant),
         demanded |-> clients_demandes,
         capacity |-> capacite_max_clients,
         cap_service |-> capacite_service_clients,
         available |-> portions_finies_disponibles,
         target |-> clients_reellement_servis,
         sold |-> sale.sold,
         revenue |-> sale.revenue,
         losses |-> loss.losses]

\* The body of the loop over the vendors for one vendor (lines 502-667):
\* what the vendor becomes and what the turn result records.  The accounting
\* posts and the funds are left out: they read the sale and write the ledger
\* and the funds only.
settle_vendor(restaurant, clients_demandes, capacite_max_clients, tie) ==
    LET capacite_service_clients ==
            service_capacity_with_minutes(restaurant, capacite_max_clients)
        portions_finies_disponibles == get_available_portions(restaurant)
        clients_reellement_servis ==
            Min(Min(clients_demandes, capacite_service_clients),
                portions_finies_disponibles)
        r1 == game_consume_service_minutes(restaurant, clients_reellement_servis)
        sale == game_sell_from_finished_fifo(r1, clients_reellement_servis)
        r2 == [r1 EXCEPT !.finished = sale.finished]
        loss == apply_client_losses(r2, clients_demandes, capacite_max_clients,
                                    capacite_service_clients,
                                    portions_finies_disponibles, sale.sold, tie)
    IN  [restaurant |-> update_rh_satisfaction(loss.restaurant),
         demanded |-> clients_demandes,
         capacity |-> capacite_max_clients,
         cap_service |-> capacite_service_clients,
         available |-> portions_finies_disponibles,
         target |-> clients_reellement_servis,
         sold |-> sale.sold,
         revenue |-> sale.revenue,
         losses |-> loss.losses]

\* ------------------------------------------------------------------------
\* SpecInv: one Inventory driven through its public operations
\* ------------------------------------------------------------------------
Recipes == {"G1", "G3"}
PriceOf(recipe_name) == IF recipe_name = "G1" THEN 10 ELSE 8

\* Arguments of add_finished_lot: <<recipe, portions, produced_tour, shelf_tours>>.
\* The two extra tuples are the lots of the spec's scenario C.
AddArgs ==
    (Recipes \X (1..MaxPortions) \X (1..MaxInvTour) \X {0, 1})
    \cup {<<"G1", 5, 2, 1>>, <<"G3", 10, 1, 2>>}

SellArgs == (0..MaxQty) \cup {8}

InitInv ==
    /\ restaurants = <<Restaurant("BISTRO", 1, 3, <<>>, 500, 80, <<>>, <<>>)>>
    /\ scenario = NoScenario
    /\ current_tour = 1
    /\ pc = "inventory"
    /\ attrib = <<>>
    /\ served_cap = <<>>
    /\ index_restaurant = 0
    /\ scoring_weights = SCORING_WEIGHTS
    /\ ledger = <<>>
    /\ turn_log = <<>>
    /\ call = NoCall

InvAddFinishedLot ==
    /\ Len(restaurants[1].finished) < MaxLots
    /\ \E a \in AddArgs :
          /\ a[3] <= current_tour
          /\ restaurants' = [restaurants EXCEPT ![1].finished =
                                add_finished_lot(@, a[1], PriceOf(a[1]), a[2], a[3], a[4])]
          /\ call' = [op |-> "add_finished_lot", args |-> a]
    /\ UNCHANGED <<scoring_weights, ledger, turn_log>>
    /\ UNCHANGED <<scenario, current_tour, pc, attrib, served_cap, index_restaurant>>

InvSellFromFinishedFifo ==
    /\ \E q \in SellArgs :
          LET r == sell_from_finished_fifo(restaurants[1].finished, q)
          IN  /\ restaurants' = [restaurants EXCEPT ![1].finished = r.finished]
              /\ call' = [op |-> "sell_from_finished_fifo", qty |-> q,
                          before |-> restaurants[1].finished, tour |-> current_tour,
                          sold |-> r.sold, revenue |-> r.revenue, log |-> r.log]
    /\ UNCHANGED <<scoring_weights, ledger, turn_log>>
    /\ UNCHANGED <<scenario, current_tour, pc, attrib, served_cap, index_restaurant>>

InvCleanupExpired ==
    /\ restaurants' = [restaurants EXCEPT ![1].finished = cleanup_expired(@, current_tour)]
    /\ call' = [op |-> "cleanup_expired", tour |-> current_tour]
    /\ UNCHANGED <<scoring_weights, ledger, turn_log>>
    /\ UNCHANGED <<scenario, current_tour, pc, attrib, served_cap, index_restaurant>>

\* The turn counter moves on (Game.play: self.current_tour += 1).
InvNextTour ==
    /\ current_tour < MaxInvTour
    /\ current_tour' = current_tour + 1
    /\ call' = [op |-> "next_tour"]
    /\ UNCHANGED <<scoring_weights, ledger, turn_log>>
    /\ UNCHANGED <<restaurants, scenario, pc, attrib, served_cap, index_restaurant>>

NextInv ==
    \/ InvAddFinishedLot
    \/ InvSellFromFinishedFifo
    \/ InvCleanupExpired
    \/ InvNextTour

SpecInv == InitInv /\ [][NextInv]_vars

\* ------------------------------------------------------------------------
\* SpecLoss: the loss attributor applied turn after turn to one vendor,
\* with arbitrary arguments
\* ------------------------------------------------------------------------
\* <<demanded, capacity_rh, cap_service, available_finished, sold>>.  Beside
\* the small cube (capacity_rh at either end of the range): the spec's scenario D, a loss below 5% of the demand (so
\* that delta < 0.10), and negative arguments.
LossArgs ==
    ((0..MaxLossQty) \X {0, MaxLossQty} \X (0..MaxLossQty) \X (0..MaxLossQty)
        \X (0..MaxLossQty))
    \cup {<<100, 80, 60, 40, 40>>, <<100, 100, 100, 100, 98>>,
          <<100, 100, 100, 99, 99>>, <<0 - 1, 2, 2, 2, 0>>, <<2, 2, 2, 0 - 1, 0 - 1>>}

InitNotoriety == {0, 5, 6, 1000}

InitLoss ==
    /\ \E n \in InitNotoriety :
          restaurants = <<Restaurant("BISTRO", 1, 3, <<>>, n, 80, <<>>, <<>>)>>
    /\ scenario = NoScenario
    /\ current_tour = 1
    /\ pc = "losses"
    /\ attrib = <<>>
    /\ served_cap = <<>>
    /\ index_restaurant = 0
    /\ scoring_weights = SCORING_WEIGHTS
    /\ ledger = <<>>
    /\ turn_log = <<>>
    /\ call = NoCall

LossApplyClientLosses ==
    /\ current_tour <= MaxLossTurns
    /\ \E a \in LossArgs :
          \E r \in {apply_client_losses(restaurants[1], a[1], a[2], a[3], a[4], a[5], tie) :
                        tie \in {0, 1}} :
              /\ restaurants' = [restaurants EXCEPT ![1] = r.restaurant]
              /\ call' = [op |-> "apply_client_losses", args |-> a,
                          notoriety_before |-> restaurants[1].notoriety,
                          losses |-> r.losses]
    /\ current_tour' = current_tour + 1
    /\ UNCHANGED <<scoring_weights, ledger, turn_log>>
    /\ UNCHANGED <<scenario, pc, attrib, served_cap, index_restaurant>>

NextLoss == LossApplyClientLosses

SpecLoss == InitLoss /\ [][NextLoss]_vars

\* ------------------------------------------------------------------------
\* SpecAlloc: allocate_demand called on a vendor list and a scenario
\* ------------------------------------------------------------------------
MaxVendors == 2

\* The vendors the lists are drawn from: cheap fast-foods (60 and 120
\* customers a turn), a bistro priced above the student budget, a gastro only
\* families and tourists can afford, a bistro with an empty menu, and a
\* fast-food without seats.
VendorCatalog ==
    {Restaurant("FAST_FOOD", 1, 3, <<MenuItem(8, 60, "G3")>>, 500, 80, <<Employe("SERVEUR")>>, <<>>),
     Restaurant("FAST_FOOD", 2, 2, <<MenuItem(12, 80, "G1")>>, 400, 80, <<Employe("SERVEUR")>>, <<>>),
     Restaurant("BISTRO", 1, 4, <<MenuItem(12, 80, "G1"), MenuItem(22, 80, "G1")>>,
                900, 100, <<Employe("SERVEUR")>>, <<>>),
     Restaurant("GASTRO", 1, 5, <<MenuItem(30, 90, "G5")>>, 1000, 100, <<Employe("SERVEUR")>>, <<>>),
     Restaurant("BISTRO", 1, 1, <<>>, 100, 80, <<Employe("SERVEUR")>>, <<>>),
     Restaurant("FAST_FOOD", 0, 5, <<MenuItem(8, 60, "G3")>>, 1000, 100, <<Employe("SERVEUR")>>, <<>>)}

VendorLists ==
    UNION {[1..n -> VendorCatalog] : n \in 1..MaxVendors}

Populations == {0, 50, 100, 1000}

\* segments_share in its declared order: <<segment, share in percent>>.
ShareLists ==
    {<< <<"actif", 100>> >>,
     << <<"etudiant", 60>>, <<"actif", 40>> >>,
     << <<"actif", 40>>, <<"etudiant", 60>> >>,
     << <<"touriste", 50>>, <<"senior", 80>> >>,
     << <<"etudiant", 0>>, <<"famille", 30>>, <<"senior", 5>> >>}

Scenario(population_total, segments_share, nb_tours) ==
    [population_total |-> population_total, segments_share |-> segments_share,
     nb_tours |-> nb_tours]

InitAlloc ==
    /\ restaurants \in VendorLists
    /\ \E p \in Populations, sh \in ShareLists : scenario = Scenario(p, sh, 1)
    /\ current_tour = 1
    /\ pc = "market"
    /\ attrib = <<>>
    /\ served_cap = <<>>
    /\ index_restaurant = 0
    /\ scoring_weights = SCORING_WEIGHTS
    /\ ledger = <<>>
    /\ turn_log = <<>>
    /\ call = NoCall

AllocAllocateDemand ==
    /\ LET r == allocate_demand(restaurants, scenario)
       IN  /\ restaurants' = r.restaurants
           /\ attrib' = r.allocated
           /\ call' = [op |-> "allocate_demand", allocated |-> r.allocated,
                       walks |-> r.walks, restaurants_before |-> restaurants,
                       previous |-> attrib]
    /\ UNCHANGED <<scoring_weights, ledger, turn_log>>
    /\ UNCHANGED <<scenario, current_tour, pc, served_cap, index_restaurant>>

\* Customers a layer above adds to every vendor's allocation between
\* allocate_demand and clamp_capacity; 0 is what Game.play does.
ClampExtras == {0, 1, 70}

AllocClampCapacity ==
    /\ call.op = "allocate_demand"
    /\ \E extra \in ClampExtras :
          LET allocated == [i \in DOMAIN attrib |-> attrib[i] + extra]
              served == clamp_capacity(restaurants, allocated)
          IN  /\ served_cap' = served
              /\ call' = [op |-> "clamp_capacity", allocated |-> allocated,
                          served |-> served,
                          served_again |-> clamp_capacity(restaurants, served)]
    /\ UNCHANGED <<scoring_weights, ledger, turn_log>>
    /\ UNCHANGED <<restaurants, scenario, current_tour, pc, attrib, index_restaurant>>

NextAlloc ==
    \/ AllocAllocateDemand
    \/ AllocClampCapacity

SpecAlloc == InitAlloc /\ [][NextAlloc]_vars

\* ------------------------------------------------------------------------
\* Spec: Game.play, the loop over the turns
\* ------------------------------------------------------------------------
MaxTours == 2

\* The vendors of a game, as the director's office leaves them before the
\* first turn: a fast-food short of stock, a bistro run by a manager alone
\* whose lot expires with turn 1, a fast-food without staff, and a gastro
\* with two lots.
GameCatalog ==
    {Restaurant("FAST_FOOD", 1, 3, <<MenuItem(8, 60, "G3")>>, 500, 80,
                <<Employe("SERVEUR")>>,
                <<FinishedBatch("Burger", 8, 40, 1, 2)>>),
     Restaurant("BISTRO", 1, 4, <<MenuItem(12, 80, "G1")>>, 900, 100,
                <<Employe("MANAGER")>>,
                <<FinishedBatch("Plat", 12, 25, 1, 1), FinishedBatch("Plat", 14, 10, 1, 2)>>),
     Restaurant("FAST_FOOD", 1, 5, <<MenuItem(8, 60, "G3")>>, 5, 100,
                <<>>,
                <<FinishedBatch("Burger", 8, 10, 1, 3)>>),
     Restaurant("GASTRO", 1, 5, <<MenuItem(30, 90, "G5")>>, 1000, 100,
                <<Employe("SERVEUR"), Employe("CUISINIER")>>,
                <<FinishedBatch("Menu", 30, 5, 1, 1), FinishedBatch("Menu", 30, 20, 1, 2)>>),
     Restaurant("BISTRO", 1, 2, <<MenuItem(12, 80, "G1")>>, 1, 100,
                <<>>,
                <<>>)}

GameVendorLists ==
    UNION {[1..n -> GameCatalog] : n \in 1..MaxVendors}

GamePopulations == {50, 100, 1000}

\* nb_tours = scenario.nb_tours if scenario.nb_tours else 12
NbTours(sc) == IF sc.nb_tours # 0 THEN sc.nb_tours ELSE 12

Init ==
    /\ restaurants \in GameVendorLists
    /\ \E p \in GamePopulations, sh \in ShareLists, n \in 1..MaxTours :
          scenario = Scenario(p, sh, n)
    /\ current_tour = 1
    /\ pc = "turn_start"
    /\ attrib = <<>>
    /\ served_cap = <<>>
    /\ index_restaurant = 0
    /\ scoring_weights = SCORING_WEIGHTS
    /\ ledger = <<>>
    /\ turn_log = <<>>
    /\ call = NoCall

\* The head of the while body (lines 486-499): expiry, staff minutes, the
\* allocation of the turn and its clamp.
PlayTurnStart ==
    /\ pc = "turn_start"
    /\ current_tour <= NbTours(scenario)
    /\ LET cleaned == [i \in DOMAIN restaurants |->
                          reset_rh_minutes(
                              [restaurants[i] EXCEPT
                                  !.finished = cleanup_expired(@, current_tour)])]
           r == allocate_demand(cleaned, scenario)
       IN  /\ restaurants' = r.restaurants
           /\ attrib' = r.allocated
           /\ served_cap' = clamp_capacity(r.restaurants, r.allocated)
           /\ call' = [op |-> "turn_start", tour |-> current_tour,
                       allocated |-> r.allocated, walks |-> r.walks,
                       demand |-> compute_segment_quantities(scenario),
                       restaurants_before |-> restaurants]
    /\ index_restaurant' = 1
    /\ pc' = "vendor"
    /\ turn_log' = <<>>
    /\ UNCHANGED <<scoring_weights, ledger>>
    /\ UNCHANGED <<scenario, current_tour>>

\* Mutant: the notoriety the settlement leaves is shared by every vendor.
WithVendorSettled_shared_notoriety(restos, i, r) ==
    [j \in DOMAIN restos |->
        IF j = i THEN r ELSE [restos[j] EXCEPT !.notoriety = r.notoriety]]

\* The list of vendors once the object at position i, the loop variable
\* 'restaurant' of the for loop, has been mutated into r.
WithVendorSettled(restos, i, r) ==
    [j \in DOMAIN restos |-> IF j = i THEN r ELSE restos[j]]

\* Mutant: the allocation is computed again behind each settlement.
PlaySettleVendor_reallocate ==
    /\ pc = "vendor"
    /\ index_restaurant <= Len(restaurants)
    /\ \E r \in {settle_vendor(restaurants[index_restaurant],
                               attrib[index_restaurant],
                               served_cap[index_restaurant], tie) : tie \in {0, 1}} :
          /\ restaurants' = WithVendorSettled(restaurants, index_restaurant,
                                              r.restaurant)
          /\ call' = [op |-> "settle_vendor", tour |-> current_tour,
                      index |-> index_restaurant,
                      before |-> restaurants[index_restaurant],
                      demanded |-> r.demanded, capacity |-> r.capacity,
                      cap_service |-> r.cap_service, available |-> r.available,
                      target |-> r.target, sold |-> r.sold,
                      revenue |-> r.revenue, losses |-> r.losses]
          /\ turn_log' = Append(turn_log,
                                [tour |-> current_tour, index |-> index_restaurant,
                                 demanded |-> r.demanded, sold |-> r.sold,
                                 lost_total |-> r.losses.lost_total])
    /\ attrib' = allocate_demand(restaurants', scenario).allocated
    /\ index_restaurant' = index_restaurant + 1
    /\ UNCHANGED <<scoring_weights, ledger>>
    /\ UNCHANGED <<scenario, current_tour, pc, served_cap>>

\* One pass of the loop over the vendors.
PlaySettleVendor ==
    /\ pc = "vendor"
    /\ index_restaurant <= Len(restaurants)
    /\ \E r \in {settle_vendor(restaurants[index_restaurant],
                               attrib[index_restaurant],
                               served_cap[index_restaurant], tie) : tie \in {0, 1}} :
          /\ restaurants' = WithVendorSettled(restaurants, index_restaurant,
                                              r.restaurant)
          /\ call' = [op |-> "settle_vendor", tour |-> current_tour,
                      index |-> index_restaurant,
                      before |-> restaurants[index_restaurant],
                      demanded |-> r.demanded, capacity |-> r.capacity,
                      cap_service |-> r.cap_service, available |-> r.available,
                      target |-> r.target, sold |-> r.sold,
                      revenue |-> r.revenue, losses |-> r.losses]
          /\ turn_log' = Append(turn_log,
                                [tour |-> current_tour, index |-> index_restaurant,
                                 demanded |-> r.demanded, sold |-> r.sold,
                                 lost_total |-> r.losses.lost_total])
    /\ index_restaurant' = index_restaurant + 1
    /\ UNCHANGED <<scoring_weights, ledger>>
    /\ UNCHANGED <<scenario, current_tour, pc, attrib, served_cap>>

\* The end of the while body: self.current_tour += 1.
PlayEndTurn ==
    /\ pc = "vendor"
    /\ index_restaurant > Len(restaurants)
    /\ current_tour' = current_tour + 1
    /\ pc' = "turn_start"
    /\ call' = [op |-> "end_turn", tour |-> current_tour]
    /\ UNCHANGED <<scoring_weights, ledger, turn_log>>
    /\ UNCHANGED <<restaurants, scenario, attrib, served_cap, index_restaurant>>

\* The while condition fails: play returns.
PlayReturn ==
    /\ pc = "turn_start"
    /\ current_tour > NbTours(scenario)
    /\ pc' = "done"
    /\ call' = [op |-> "return"]
    /\ UNCHANGED <<scoring_weights, ledger, turn_log>>
    /\ UNCHANGED <<restaurants, scenario, current_tour, attrib, served_cap,
                   index_restaurant>>

Next ==
    \/ PlayTurnStart
    \/ PlaySettleVendor
    \/ PlayEndTurn
    \/ PlayReturn

Spec == Init /\ [][Next]_vars

\* The control flow of Game.play alone: the while test on current_tour, the
\* for loop over the vendors, the increment that closes the turn and the
\* return.  Every step of Next is such a step, and one is possible exactly
\* when a step of Next is.
PlayControl ==
    \/ /\ pc = "turn_start"
       /\ current_tour <= NbTours(scenario)
       /\ pc' = "vendor"
       /\ index_restaurant' = 1
       /\ current_tour' = current_tour
    \/ /\ pc = "vendor"
       /\ index_restaurant <= Len(restaurants)
       /\ index_restaurant' = index_restaurant + 1
       /\ pc' = pc
       /\ current_tour' = current_tour
    \/ /\ pc = "vendor"
       /\ index_restaurant > Len(restaurants)
       /\ current_tour' = current_tour + 1
       /\ pc' = "turn_start"
       /\ index_restaurant' = index_restaurant
    \/ /\ pc = "turn_start"
       /\ current_tour > NbTours(scenario)
       /\ pc' = "done"
       /\ index_restaurant' = index_restaurant
       /\ current_tour' = current_tour

\* Game.play runs on one thread from its call to its return: when the
\* thread can advance, it does.
LiveSpec ==
    Init /\ [][Next]_vars /\ WF_<<pc, index_restaurant, current_tour>>(PlayControl)

\* The body of the for loop as core/game.py has it, up to the call of line
\* 553.  The sale helper starts by testing inventaire.finished_product_batches
\* (line 227), an attribute that Inventory, a dataclass of raw and finished,
\* does not have: the test raises AttributeError whatever the quantity, after
\* _consume_service_minutes has charged the staff minutes of the vendor, and
\* nothing in Game.play catches it.
PlaySettleVendorRaises ==
    /\ pc = "vendor"
    /\ index_restaurant <= Len(restaurants)
    /\ LET restaurant == restaurants[index_restaurant]
           capacite_service_clients ==
               service_capacity_with_minutes(restaurant,
                                             served_cap[index_restaurant])
           clients_reellement_servis ==
               Min(Min(attrib[index_restaurant], capacite_service_clients),
                   get_available_portions(restaurant))
       IN  /\ restaurants' =
                 WithVendorSettled(
                     restaurants, index_restaurant,
                     game_consume_service_minutes(restaurant,
                                                  clients_reellement_servis))
           /\ call' = [op |-> "raise", error |-> "AttributeError",
                       tour |-> current_tour, index |-> index_restaurant,
                       target |-> clients_reellement_servis]
    /\ pc' = "raised"
    /\ UNCHANGED <<scoring_weights, ledger, turn_log>>
    /\ UNCHANGED <<scenario, current_tour, attrib, served_cap, index_restaurant>>

\* Game.play with the sale helper taken to the letter.
NextAsWritten ==
    \/ PlayTurnStart
    \/ PlaySettleVendorRaises

\* The control flow of that play: the while test, then the first vendor of
\* the for loop, where the exception leaves play.
PlayControlAsWritten ==
    \/ /\ pc = "turn_start"
       /\ current_tour <= NbTours(scenario)
       /\ pc' = "vendor"
       /\ index_restaurant' = 1
       /\ current_tour' = current_tour
    \/ /\ pc = "vendor"
       /\ index_restaurant <= Len(restaurants)
       /\ pc' = "raised"
       /\ index_restaurant' = index_restaurant
       /\ current_tour' = current_tour

LiveSpecAsWritten ==
    /\ Init
    /\ [][NextAsWritten]_vars
    /\ WF_<<pc, index_restaurant, current_tour>>(PlayControlAsWritten)

\* ------------------------------------------------------------------------
\* SpecService: the service-minute helpers applied to one vendor
\* ------------------------------------------------------------------------
MaxServiceMinutes == 16
MaxCovers == 4

\* The three concepts and the base class (no minutes per cover).
ServiceTypes == {"FAST_FOOD", "BISTRO", "GASTRO", "BASE"}

InitService ==
    /\ \E type \in ServiceTypes, m \in (0..MaxServiceMinutes) \cup {Inf} :
          restaurants = <<[Restaurant(type, 1, 3, <<>>, 500, 80, <<>>, <<>>)
                              EXCEPT !.service_minutes_left = m]>>
    /\ scenario = NoScenario
    /\ current_tour = 1
    /\ pc = "service"
    /\ attrib = <<>>
    /\ served_cap = <<>>
    /\ index_restaurant = 0
    /\ scoring_weights = SCORING_WEIGHTS
    /\ ledger = <<>>
    /\ turn_log = <<>>
    /\ call = NoCall

ServiceCapacityWithMinutes ==
    /\ \E clients_cap \in 0..MaxCovers :
          call' = [op |-> "service_capacity_with_minutes",
                   type |-> restaurants[1].type,
                   minutes_left |-> restaurants[1].service_minutes_left,
                   clients_cap |-> clients_cap,
                   result |-> service_capacity_with_minutes(restaurants[1], clients_cap)]
    /\ UNCHANGED <<scoring_weights, ledger, turn_log>>
    /\ UNCHANGED <<restaurants, scenario, current_tour, pc, attrib, served_cap,
                   index_restaurant>>

\* With unbounded minutes restaurant.consume_service_minutes leaves them
\* unbounded and the int() of the assignment behind it raises OverflowError.
ServiceConsumeMinutes ==
    /\ \E clients_served \in 0..MaxCovers :
          IF restaurants[1].service_minutes_left = Inf
          THEN /\ call' = [op |-> "consume_service_minutes", raised |-> TRUE,
                           type |-> restaurants[1].type,
                           before |-> Inf, clients_served |-> clients_served]
               /\ UNCHANGED restaurants
          ELSE /\ call' = [op |-> "consume_service_minutes", raised |-> FALSE,
                           type |-> restaurants[1].type,
                           before |-> restaurants[1].service_minutes_left,
                           clients_served |-> clients_served]
               /\ restaurants' = [restaurants EXCEPT
                                     ![1] = game_consume_service_minutes(@, clients_served)]
    /\ UNCHANGED <<scoring_weights, ledger, turn_log>>
    /\ UNCHANGED <<scenario, current_tour, pc, attrib, served_cap, index_restaurant>>

NextService ==
    \/ ServiceCapacityWithMinutes
    \/ ServiceConsumeMinutes

SpecService == InitService /\ [][NextService]_vars

\* ------------------------------------------------------------------------
\* SpecAnyLot: the two sales on an inventory whose lots were added with any
\* portion count (add_finished_lot takes int(portions) as it comes)
\* ------------------------------------------------------------------------
\* <<recipe, portions, shelf_tours>>, portions from -1 on.
AnyLotArgs == Recipes \X ((0 - 1)..MaxPortions) \X {1}

InitAnyLot ==
    /\ restaurants = <<Restaurant("BISTRO", 1, 3, <<>>, 500, 80, <<>>, <<>>)>>
    /\ scenario = NoScenario
    /\ current_tour = 1
    /\ pc = "any_lot"
    /\ attrib = <<>>
    /\ served_cap = <<>>
    /\ index_restaurant = 0
    /\ scoring_weights = SCORING_WEIGHTS
    /\ ledger = <<>>
    /\ turn_log = <<>>
    /\ call = NoCall

AnyLotAddFinishedLot ==
    /\ Len(restaurants[1].finished) < MaxLots
    /\ \E a \in AnyLotArgs :
          /\ restaurants' = [restaurants EXCEPT ![1].finished =
                                add_finished_lot(@, a[1], PriceOf(a[1]), a[2],
                                                 current_tour, a[3])]
          /\ call' = [op |-> "add_finished_lot", args |-> a]
    /\ UNCHANGED <<scoring_weights, ledger, turn_log>>
    /\ UNCHANGED <<scenario, current_tour, pc, attrib, served_cap, index_restaurant>>

\* Inventory.sell_from_finished_fifo.  The method has no raise statement:
\* whatever the lots, it returns (sold, revenue).
AnyLotSellInventory ==
    /\ \E q \in 0..MaxQty :
          LET r == sell_from_finished_fifo(restaurants[1].finished, q)
          IN  /\ restaurants' = [restaurants EXCEPT ![1].finished = r.finished]
              /\ call' = [op |-> "sale", by |-> "Inventory.sell_from_finished_fifo",
                          qty |-> q, before |-> restaurants[1].finished,
                          sold |-> r.sold, revenue |-> r.revenue, raised |-> FALSE]
    /\ UNCHANGED <<scoring_weights, ledger, turn_log>>
    /\ UNCHANGED <<scenario, current_tour, pc, attrib, served_cap, index_restaurant>>

\* The sale helper of the turn loop, which has no raise statement either.
AnyLotSellGame ==
    /\ \E q \in 0..MaxQty :
          LET r == game_sell_from_finished_fifo(restaurants[1], q)
          IN  /\ restaurants' = [restaurants EXCEPT ![1].finished = r.finished]
              /\ call' = [op |-> "sale", by |-> "_sell_from_finished_fifo",
                          qty |-> q, before |-> restaurants[1].finished,
                          sold |-> r.sold, revenue |-> r.revenue, raised |-> FALSE]
    /\ UNCHANGED <<scoring_weights, ledger, turn_log>>
    /\ UNCHANGED <<scenario, current_tour, pc, attrib, served_cap, index_restaurant>>

NextAnyLot ==
    \/ AnyLotAddFinishedLot
    \/ AnyLotSellInventory
    \/ AnyLotSellGame

SpecAnyLot == InitAnyLot /\ [][NextAnyLot]_vars

\* ------------------------------------------------------------------------
\* attraction_score under a configured weights table
\* ------------------------------------------------------------------------

\* Segment keys a caller can pass: the five declared ones and one the
\* fit table does not know.
ScoreSegments == {"etudiant", "actif", "famille", "touriste", "senior", "autre"}

\* Weight tables a configuration can install: the default one and the
\* default one lacking one key.
WeightTables ==
    {SCORING_WEIGHTS}
    \cup {[k \in (WeightKeys \ {gone}) |-> SCORING_WEIGHTS[k]] : gone \in WeightKeys}

\* The concepts and segments _CONCEPT_FIT holds an entry for, as seen by
\* the lookup of attraction_score.
FitConcepts == {"Fast Food", "Bistrot", "Gastronomique"}
FitSegments == {"actif", "famille", "touriste", "senior"}

InitScore ==
    /\ \E v \in GameCatalog : restaurants = <<v>>
    /\ scenario = NoScenario
    /\ current_tour = 1
    /\ pc = "idle"
    /\ attrib = <<>>
    /\ served_cap = <<>>
    /\ index_restaurant = 0
    /\ scoring_weights \in WeightTables
    /\ ledger = <<>>
    /\ turn_log = <<>>
    /\ call = NoCall

ScoreAttraction ==
    \E seg \in ScoreSegments :
        /\ call' = [op |-> "attraction_score",
                    type |-> restaurants[1].type,
                    seg |-> seg,
                    raised |-> attraction_score_raises(scoring_weights),
                    fit |-> ConceptFit(restaurants[1].type, seg),
                    score |-> IF attraction_score_raises(scoring_weights)
                              THEN 0
                              ELSE attraction_score_under(restaurants[1], seg,
                                                          scoring_weights)]
        /\ UNCHANGED <<restaurants, scenario, current_tour, pc, attrib,
                       served_cap, index_restaurant, scoring_weights, ledger,
                       turn_log>>

NextScore == ScoreAttraction

SpecScore == InitScore /\ [][NextScore]_vars

\* ------------------------------------------------------------------------
\* cannibalization_factor over markets of up to MaxSameType vendors
\* ------------------------------------------------------------------------

MaxSameType == 3

CanniMarkets ==
    UNION {[1..n -> VendorCatalog] : n \in 1..MaxSameType}

CanniSegments == {"etudiant", "actif"}

InitCanni ==
    /\ restaurants \in CanniMarkets
    /\ scenario = NoScenario
    /\ current_tour = 1
    /\ pc = "idle"
    /\ attrib = <<>>
    /\ served_cap = <<>>
    /\ index_restaurant = 0
    /\ scoring_weights = SCORING_WEIGHTS
    /\ ledger = <<>>
    /\ turn_log = <<>>
    /\ call = NoCall

\* The scoring step of _ranked_for_segment for two vendors i and j of one
\* market: base_score, penal and base_score * penal of each, and the penal
\* of i once the market holds one more vendor of i's concept.
CanniScorePair ==
    \E i \in DOMAIN restaurants, j \in DOMAIN restaurants, seg \in CanniSegments :
        LET base(k) == Max(0, attraction_score(restaurants[k], seg))
            penal(k) == cannibalization_factor(restaurants[k], restaurants)
        IN  /\ call' = [op |-> "cannibalization_factor",
                        seg |-> seg,
                        type_i |-> restaurants[i].type,
                        type_j |-> restaurants[j].type,
                        n_i |-> count_restaurants_types(restaurants, restaurants[i].type),
                        n_j |-> count_restaurants_types(restaurants, restaurants[j].type),
                        penal_i |-> penal(i),
                        penal_j |-> penal(j),
                        penal_more |-> cannibalization_factor(
                                           restaurants[i],
                                           Append(restaurants, restaurants[i])),
                        base_i |-> base(i),
                        base_j |-> base(j),
                        score_i |-> base(i) * penal(i),
                        score_j |-> base(j) * penal(j)]
            /\ UNCHANGED <<restaurants, scenario, current_tour, pc, attrib,
                           served_cap, index_restaurant, scoring_weights, ledger,
                       turn_log>>

NextCanni == CanniScorePair

SpecCanni == InitCanni /\ [][NextCanni]_vars

\* ------------------------------------------------------------------------
\* core/accounting.py: Ledger
\* ------------------------------------------------------------------------
\* Amounts are in tenths of a cent, so that round(x, 2) has something to
\* round.  A line is <<account, amount, "D" or "C">>.

MaxLedgerEntries == 2

Entry(tour, lines) == [tour |-> tour, lines |-> lines]

\* sum(m for c, m, dc in lines if dc == side)
RECURSIVE SumSide(_, _)
SumSide(lines, side) ==
    IF lines = <<>> THEN 0
    ELSE (IF Head(lines)[3] = side THEN Head(lines)[2] ELSE 0)
         + SumSide(Tail(lines), side)

\* round(x, 2) != 0.0 for x in tenths of a cent: below half a cent x rounds
\* to zero, above it does not, and at half a cent the float x lies on one
\* side or the other of 0.005: tie = 1 stands for the side that rounds away.
RoundsToNonZero(x, tie) ==
    LET a == IF x < 0 THEN 0 - x ELSE x
    IN  a > 5 \/ (a = 5 /\ tie = 1)

\* Mutant: the entry is appended without the balance control.
post_unchecked(entries, tour, lines, tie) ==
    [raised |-> FALSE, entries |-> Append(entries, Entry(tour, lines))]

\* Ledger.post: raised tells the ValueError, entries the list afterwards.
post(entries, tour, lines, tie) ==
    LET d == SumSide(lines, "D")
        c == SumSide(lines, "C")
    IN  IF RoundsToNonZero(d - c, tie)
        THEN [raised |-> TRUE, entries |-> entries]
        ELSE [raised |-> FALSE, entries |-> Append(entries, Entry(tour, lines))]

\* The lines balance_accounts walks: those of the entries with
\* tour <= upto_tour, every entry when upto_tour is None (0 here).
RECURSIVE CountedLines(_, _)
CountedLines(entries, upto_tour) ==
    IF entries = <<>> THEN <<>>
    ELSE (IF upto_tour # 0 /\ Head(entries).tour > upto_tour
          THEN <<>> ELSE Head(entries).lines)
         \o CountedLines(Tail(entries), upto_tour)

\* bal[acc] += amt if dc == "D" else -amt, over the given lines.
RECURSIVE AccountBalance(_, _)
AccountBalance(lines, acc) ==
    IF lines = <<>> THEN 0
    ELSE (IF Head(lines)[1] # acc THEN 0
          ELSE IF Head(lines)[3] = "D" THEN Head(lines)[2] ELSE 0 - Head(lines)[2])
         + AccountBalance(Tail(lines), acc)

\* Ledger.balance_accounts: {account: debit - credit} over the accounts met.
balance_accounts(entries, upto_tour) ==
    LET lines == CountedLines(entries, upto_tour)
    IN  [acc \in {lines[k][1] : k \in DOMAIN lines} |-> AccountBalance(lines, acc)]

\* Line lists handed to post: balanced sales and purchases, a lone debit
\* below half a cent, debits above the credits by 0.004, by 0.005, by a
\* cent, a lone debit of one euro, credits above the debits by 0.004.
LedgerLineLists ==
    {<< <<"512", 1000, "D">>, <<"70", 1000, "C">> >>,
     << <<"60", 1010, "D">>, <<"512", 1010, "C">> >>,
     << <<"512", 4, "D">> >>,
     << <<"512", 1004, "D">>, <<"70", 1000, "C">> >>,
     << <<"512", 1005, "D">>, <<"70", 1000, "C">> >>,
     << <<"512", 1010, "D">>, <<"70", 1000, "C">> >>,
     << <<"512", 1000, "D">> >>,
     << <<"512", 1000, "D">>, <<"70", 1004, "C">> >>}

LedgerTours == {1, 2}

InitLedger ==
    /\ restaurants = <<>>
    /\ scenario = NoScenario
    /\ current_tour = 1
    /\ pc = "ledger"
    /\ attrib = <<>>
    /\ served_cap = <<>>
    /\ index_restaurant = 0
    /\ scoring_weights = SCORING_WEIGHTS
    /\ ledger = <<>>
    /\ turn_log = <<>>
    /\ call = NoCall

LedgerPost ==
    /\ Len(ledger) < MaxLedgerEntries
    /\ \E tour \in LedgerTours, lines \in LedgerLineLists, tie \in {0, 1} :
          LET r == post(ledger, tour, lines, tie)
          IN  /\ ledger' = r.entries
              /\ call' = [op |-> "post", tour |-> tour, lines |-> lines,
                          raised |-> r.raised, before |-> ledger]
    /\ UNCHANGED <<restaurants, scenario, current_tour, pc, attrib, served_cap,
                   index_restaurant, scoring_weights, turn_log>>

LedgerBalanceAccounts ==
    /\ \E upto_tour \in {0} \cup LedgerTours :
          call' = [op |-> "balance_accounts", upto_tour |-> upto_tour,
                   bal |-> balance_accounts(ledger, upto_tour)]
    /\ UNCHANGED <<restaurants, scenario, current_tour, pc, attrib, served_cap,
                   index_restaurant, scoring_weights, ledger, turn_log>>

NextLedger ==
    \/ LedgerPost
    \/ LedgerBalanceAccounts

SpecLedger == InitLedger /\ [][NextLedger]_vars

\* ========================================================================
\* Properties
\* ========================================================================
IsSale == call.op = "sell_from_finished_fifo"
IsLoss == call.op = "apply_client_losses"

\* C4 (as claimed): one call of the finished-goods sale sells no more units
\* than the portions held in lots that are not expired at the current turn.
C4_SoldWithinNonExpired ==
    IsSale => call.sold <= total_finished_portions_at(call.before, call.tour)

\* C5: a notoriety that starts in [0,1] stays in [0,1] after any number of
\* turns of loss attribution, whatever the arguments of each turn.
C5_NotorietyInUnitInterval ==
    \A i \in DOMAIN restaurants :
        restaurants[i].notoriety >= 0 /\ restaurants[i].notoriety <= 1000

\* C5 witness: a second turn of loss attribution has lowered the notoriety.
C5_Witness ==
    /\ IsLoss
    /\ current_tour > 2
    /\ restaurants[1].notoriety < call.notoriety_before

\* Scenario C of the spec: a G1 lot of 5 portions at 10 and an older G3 lot
\* of 10 portions at 8.
LotG1 == FinishedBatch("G1", 10, 5, 2, 3)
LotG3 == FinishedBatch("G3", 8, 10, 1, 3)

\* _GRADE_RANK of the grade a lot is named after.
GradeRank(b) == IF b.recipe_name = "G1" THEN 3 ELSE 2

\* Lot a is sold no later than lot b under (grade rank descending, then
\* production turn ascending).
GradeThenAge(a, b) ==
    \/ GradeRank(a) > GradeRank(b)
    \/ GradeRank(a) = GradeRank(b) /\ a.produced_tour <= b.produced_tour

C8_ScenarioD ==
    (IsLoss /\ call.args = <<100, 80, 60, 40, 40>>)
        => call.losses = [lost_total |-> 60, lost_stock |-> 20,
                          lost_capacity |-> 20, lost_other |-> 20]

\* C9 (as claimed): a shortfall is reported in the bucket of the constraint
\* that caused it.  Stock alone short: all of it is lost_stock.  Service
\* capacity alone short: all of it is lost_capacity.
C9_ShortfallInCausingBucket ==
    IsLoss =>
        LET demanded == call.args[1]
            capacity_rh == call.args[2]
            cap_service == call.args[3]
            available == call.args[4]
            sold == call.args[5]
        IN  /\ (/\ demanded > 0 /\ capacity_rh >= demanded /\ cap_service >= demanded
                /\ available >= 0 /\ available < demanded /\ sold = available)
                 => call.losses.lost_stock = demanded - sold
            /\ (/\ demanded > 0 /\ capacity_rh >= demanded /\ available >= demanded
                /\ cap_service >= 0 /\ cap_service < demanded /\ sold = cap_service)
                 => call.losses.lost_capacity = demanded - sold

IsAlloc == call.op = "allocate_demand"

TakenFrom(w) == SumSeq(w.takes)

EligibleIn(w) == {w.ranked[k][1] : k \in DOMAIN w.ranked}

\* C2: the customers allocated out of a segment sum to at most its demand,
\* and to exactly its demand unless no vendor is budget-eligible or every
\* eligible vendor ends the segment's walk without capacity; a single
\* eligible vendor receives min(demand, its remaining capacity).
C2_SegmentConservation ==
    IsAlloc =>
        \A s \in DOMAIN call.walks :
            LET w == call.walks[s]
                eligible == {i \in DOMAIN restaurants :
                               5 * MedianPrice2(restaurants[i].menu)
                                 <= 12 * SegmentBudget(w.segment)}
            IN  /\ TakenFrom(w) <= w.quantity
                /\ \A i \in DOMAIN restaurants : w.takes[i] >= 0
                /\ \/ TakenFrom(w) = w.quantity
                   \/ eligible = {}
                   \/ \A i \in eligible : w.capacity_after[i] = 0
                /\ \A i \in DOMAIN restaurants :
                      eligible = {i} => w.takes[i] = Min(w.quantity, w.capacity_before[i])

\* C2 witness: a segment of 1000 customers with one eligible vendor of
\* capacity 60: 60 are allocated and 940 are not.
C2_Witness ==
    /\ IsAlloc
    /\ \E s \in DOMAIN call.walks :
          /\ call.walks[s].quantity = 1000
          /\ Len(call.walks[s].ranked) = 1
          /\ TakenFrom(call.walks[s]) = 60
          /\ call.walks[s].remaining = 940

C10_BudgetGate ==
    IsAlloc =>
        \A s \in DOMAIN call.walks : \A i \in DOMAIN restaurants :
            LET w == call.walks[s]
            IN  /\ 5 * MedianPrice2(restaurants[i].menu) > 12 * SegmentBudget(w.segment)
                     => w.takes[i] = 0
                /\ (restaurants[i].menu = <<>> /\ w.quantity > 0)
                     => i \in EligibleIn(w)

\* C10 witness: customers of a segment stay unserved while a vendor that is
\* too expensive for them has capacity left and a better raw score than the
\* vendor that was served, and a vendor with an empty menu is served.
C10_Witness ==
    /\ IsAlloc
    /\ \E s \in DOMAIN call.walks : \E i, j \in DOMAIN restaurants :
          LET w == call.walks[s]
          IN  /\ 5 * MedianPrice2(restaurants[i].menu) > 12 * SegmentBudget(w.segment)
              /\ w.capacity_after[i] > 0
              /\ w.remaining > 0
              /\ restaurants[j].menu = <<>>
              /\ w.takes[j] > 0
              /\ attraction_score(restaurants[i], w.segment)
                   > attraction_score(restaurants[j], w.segment)

IsSettle == call.op = "settle_vendor"

PrefixScenario(s) ==
    [scenario EXCEPT !.segments_share = SubSeq(@, 1, s)]

\* C11: a vendor's capacity is one pool consumed by the segments in the
\* scenario's declared order.  What a segment finds at a vendor is the
\* exploitable capacity minus the takes of the segments declared before it,
\* its own take is at most that, and the passes of the first s segments are
\* the ones of the scenario cut behind segment s: a later segment takes
\* nothing away from an earlier one.
C11_SharedPoolInDeclaredOrder ==
    IsAlloc =>
        /\ Len(call.walks) = Len(scenario.segments_share)
        /\ \A s \in DOMAIN call.walks :
              /\ call.walks[s].segment = scenario.segments_share[s][1]
              /\ \A i \in DOMAIN restaurants :
                    /\ call.walks[s].capacity_before[i]
                         = compute_exploitable_capacity(restaurants[i])
                           - SumSeq([t \in 1..(s - 1) |-> call.walks[t].takes[i]])
                    /\ call.walks[s].takes[i] <= call.walks[s].capacity_before[i]
                    /\ call.walks[s].capacity_after[i]
                         = call.walks[s].capacity_before[i] - call.walks[s].takes[i]
              /\ allocate_demand(restaurants, PrefixScenario(s)).walks
                   = SubSeq(call.walks, 1, s)

\* C11 witness: scarcity.  An earlier segment emptied a vendor, and a later
\* segment for which the vendor is ranked finds no capacity there and keeps
\* customers unplaced.
C11_Witness ==
    /\ IsAlloc
    /\ \E s, t \in DOMAIN call.walks : \E i \in DOMAIN restaurants :
          /\ s < t
          /\ call.walks[s].takes[i] > 0
          /\ call.walks[t].capacity_before[i] = 0
          /\ i \in EligibleIn(call.walks[t])
          /\ call.walks[t].takes[i] = 0
          /\ call.walks[t].remaining > 0

IsClamp == call.op = "service_capacity_with_minutes"

\* C12: with finite minutes and minutes per cover > 0 the service clamp
\* returns min(allocated, floor(minutes_left / minutes_per_cover)): the
\* largest count that is at most the allocated one and whose covers fit in
\* the minutes left.  With unbounded minutes it returns the allocated count.
C12_ServiceClamp ==
    IsClamp =>
        LET mpc2 == ServiceMinutesPerCover2(call.type)
        IN  /\ (call.minutes_left # Inf /\ mpc2 > 0) =>
                  /\ call.result <= call.clients_cap
                  /\ call.result * mpc2 <= 2 * call.minutes_left
                  /\ \/ call.result = call.clients_cap
                     \/ (call.result + 1) * mpc2 > 2 * call.minutes_left
            /\ call.minutes_left = Inf => call.result = call.clients_cap

\* C12 witness: a fast-food with 4 minutes left and 4 customers allocated
\* can serve floor(4 / 1.5) = 2.
C12_Witness ==
    /\ IsClamp
    /\ call.type = "FAST_FOOD"
    /\ call.minutes_left = 4
    /\ call.clients_cap = 4
    /\ call.result = 2

\* C13 (as claimed): after a vendor served N customers in a turn its
\* remaining service minutes are max(0, minutes before - N x minutes per
\* cover): the minutes of the N covers are deducted once.
C13_MinutesDeductedOnce ==
    IsSettle =>
        2 * restaurants[call.index].service_minutes_left
          = Max(0, 2 * call.before.service_minutes_left
                   - call.sold * ServiceMinutesPerCover2(call.before.type))

\* The sale of qty portions out of the list before reaches a lot with a
\* negative portion count: the lots in front of it hold fewer than qty.
MeetsNegativeLot(before, qty) ==
    \E k \in DOMAIN before :
        /\ before[k].portions < 0
        /\ total_finished_portions(SubSeq(before, 1, k - 1)) < qty

\* C14 (as claimed): a sale that meets a lot with a negative portion count
\* fails with an error; it does not drop the lot and return (sold, revenue).
C14_FailFastOnNegativeLot ==
    (call.op = "sale" /\ MeetsNegativeLot(call.before, call.qty)) => call.raised

IsScore == call.op = "attraction_score"

\* C15: attraction_score never fails on a configuration gap: with a weight
\* missing from the table or the (concept, segment) entry missing from the
\* fit table no error is raised, and a missing fit entry reads as 0.6.
C15_NoFailureOnConfigGap ==
    IsScore =>
        /\ ~call.raised
        /\ (call.type \notin FitConcepts \/ call.seg \notin FitSegments)
               => call.fit = 6000

IsCanni == call.op = "cannibalization_factor"

\* C16: the cannibalization factor depends only on the number n of vendors
\* sharing the vendor's concept; it is 1.0 for n = 1 and, for n >= 2,
\* strictly between 0 and 1 and strictly decreasing in n (1 / sqrt(1.5),
\* about 0.8165, for n = 2); two vendors of one concept keep the relative
\* order of their raw scores and a positive raw score never becomes zero.
C16_CannibalizationFactor ==
    IsCanni =>
        /\ call.n_i = call.n_j => call.penal_i = call.penal_j
        /\ call.n_i = 1 => call.penal_i = 10000
        /\ call.n_i >= 2 => call.penal_i > 0 /\ call.penal_i < 10000
        /\ call.n_i = 2 => call.penal_i = 8164
        /\ call.n_i < call.n_j => call.penal_i > call.penal_j
        /\ call.penal_more < call.penal_i
        /\ call.type_i = call.type_j =>
               /\ call.base_i > call.base_j => call.score_i > call.score_j
               /\ call.base_i = call.base_j => call.score_i = call.score_j
        /\ call.base_i > 0 => call.score_i > 0

\* Two vendors of one concept with different positive raw scores, in a
\* market that also holds a concept three vendors share or a sole one.
C16_Witness ==
    /\ IsCanni
    /\ call.type_i = call.type_j
    /\ call.n_i = 2
    /\ call.base_i > call.base_j
    /\ call.base_j > 0
    /\ call.score_i > call.score_j
    /\ Len(restaurants) = 3

C18_LotsHoldPortions ==
    \A i \in DOMAIN restaurants :
        \A k \in DOMAIN restaurants[i].finished :
            restaurants[i].finished[k].portions >= 1

\* A sale has emptied the first lot, which is gone, and left the second.
C18_Witness ==
    /\ IsSale
    /\ Len(call.before) = 2
    /\ call.sold = call.before[1].portions
    /\ restaurants[1].finished = <<call.before[2]>>

IsPost == call.op = "post"
IsBalance == call.op = "balance_accounts"

\* Debits less credits of a line list, in tenths of a cent.
Residual(lines) == SumSide(lines, "D") - SumSide(lines, "C")

Abs(x) == IF x < 0 THEN 0 - x ELSE x

\* The sum of the balances of a result of balance_accounts.
RECURSIVE SumBalances(_, _)
SumBalances(bal, accs) ==
    IF accs = {} THEN 0
    ELSE LET a == CHOOSE x \in accs : TRUE
         IN  bal[a] + SumBalances(bal, accs \ {a})

\* Entries of the ledger that balance_accounts(upto_tour) counts.
Counted(entries, upto_tour) ==
    {k \in DOMAIN entries : upto_tour = 0 \/ entries[k].tour <= upto_tour}

IsEndTurn == call.op = "end_turn"

\* Customers served plus customers lost over the records of a turn.
RECURSIVE ServedPlusLost(_)
ServedPlusLost(log) ==
    IF log = <<>> THEN 0
    ELSE Head(log).sold + Head(log).lost_total + ServedPlusLost(Tail(log))

\* The turn's total segment demand.
RECURSIVE TotalDemand(_)
TotalDemand(demand) ==
    IF demand = <<>> THEN 0
    ELSE Head(demand).quantity + TotalDemand(Tail(demand))

\* C21 (as claimed): every customer of the turn's total segment demand is
\* accounted for: at the end of a turn, customers served plus lost_total
\* summed over the vendors equals the sum of all segment demands, the demand
\* of a segment without eligible vendor and the demand left over when the
\* eligible vendors are full included.
C21_DemandAccountedFor ==
    IsEndTurn =>
        ServedPlusLost(turn_log) = TotalDemand(compute_segment_quantities(scenario))

\* The adjusted score of vendor i for a segment: raw score x cannibalization
\* factor.
AdjustedScore(i, segment) ==
    Max(0, attraction_score(restaurants[i], segment))
    * cannibalization_factor(restaurants[i], restaurants)

\* C22: within one segment's walk in allocate_demand the eligible vendors
\* are visited in descending adjusted score, and vendors of equal adjusted
\* score in their original list order (lower index first).
C22_RankedDescendingStable ==
    IsAlloc =>
        \A s \in DOMAIN call.walks :
            LET w == call.walks[s]
                r == w.ranked
            IN  /\ \A k \in DOMAIN r : r[k][2] = AdjustedScore(r[k][1], w.segment)
                /\ \A k, l \in DOMAIN r :
                      k < l => \/ r[k][2] > r[l][2]
                               \/ r[k][2] = r[l][2] /\ r[k][1] < r[l][1]
                /\ w.quantity > 0 =>
                      EligibleIn(w) = {i \in DOMAIN restaurants :
                                          is_eligible_by_budget(restaurants[i], w.segment)}

\* A walk over two vendors of equal adjusted score: the lower index comes
\* first, it is filled, and the second one takes customers after it.
C22_Witness ==
    /\ IsAlloc
    /\ \E s \in DOMAIN call.walks :
          LET r == call.walks[s].ranked
          IN  /\ Len(r) = 2
              /\ r[1][2] = r[2][2]
              /\ r[1][2] > 0
              /\ r[1][1] = 1
              /\ call.walks[s].takes[1] > 0
              /\ call.walks[s].takes[2] > 0

\* A walk that visits the second vendor of the list before the first.
C22_WitnessReordered ==
    /\ IsAlloc
    /\ \E s \in DOMAIN call.walks :
          LET r == call.walks[s].ranked
          IN  Len(r) = 2 /\ r[1][1] = 2 /\ r[1][2] > r[2][2]

\* What the vendors ranked before position k took in the walk w.
TakenAbove(w, k) == SumSeq([j \in 1..(k - 1) |-> w.takes[w.ranked[j][1]]])

\* C23: within one segment's walk each vendor in rank order gets
\* min(remaining segment demand, its remaining capacity) and both are
\* decremented by that amount; a vendor receives customers only after every
\* eligible vendor ranked above it has no remaining capacity, and nothing is
\* handed out once the segment's demand is zero.
C23_GreedyWalk ==
    IsAlloc =>
        \A s \in DOMAIN call.walks :
            LET w == call.walks[s]
                r == w.ranked
            IN  /\ \A k \in DOMAIN r :
                      LET i == r[k][1]
                      IN  /\ w.takes[i]
                               = Min(w.quantity - TakenAbove(w, k), w.capacity_before[i])
                          /\ w.capacity_after[i] = w.capacity_before[i] - w.takes[i]
                          /\ w.takes[i] > 0 =>
                                \A j \in 1..(k - 1) : w.capacity_after[r[j][1]] = 0
                          /\ w.quantity - TakenAbove(w, k) = 0 => w.takes[i] = 0
                /\ \A i \in DOMAIN restaurants :
                      i \notin EligibleIn(w) =>
                          w.takes[i] = 0 /\ w.capacity_after[i] = w.capacity_before[i]
                /\ w.remaining = w.quantity - TakenFrom(w)

\* The best-ranked vendor is filled, the second takes the rest of the
\* segment and keeps capacity, and the demand of the segment is at zero.
C23_Witness ==
    /\ IsAlloc
    /\ \E s \in DOMAIN call.walks :
          LET w == call.walks[s]
          IN  /\ Len(w.ranked) = 2
              /\ w.takes[w.ranked[1][1]] > 0
              /\ w.capacity_after[w.ranked[1][1]] = 0
              /\ w.takes[w.ranked[2][1]] > 0
              /\ w.capacity_after[w.ranked[2][1]] > 0
              /\ w.remaining = 0

\* Units times the lot's own price over the lots a sale took units from.
RECURSIVE RevenueOfLog(_)
RevenueOfLog(log) ==
    IF log = <<>> THEN 0
    ELSE Head(log).units * Head(log).lot.selling_price + RevenueOfLog(Tail(log))

RECURSIVE UnitsOfLog(_)
UnitsOfLog(log) ==
    IF log = <<>> THEN 0 ELSE Head(log).units + UnitsOfLog(Tail(log))

\* C24: for an inventory of lots with positive portions and a request
\* Q >= 0 the finished-goods sale sells exactly min(Q, total portions in
\* stock), the total portions in stock decrease by exactly the units sold,
\* and the revenue is the sum over the lots of the units taken from the lot
\* times that lot's own selling price.
C24_SaleSellsMinOfRequestAndStock ==
    (IsSale /\ call.qty >= 0) =>
        /\ call.sold = Min(call.qty, total_finished_portions(call.before))
        /\ total_finished_portions(restaurants[1].finished)
             = total_finished_portions(call.before) - call.sold
        /\ UnitsOfLog(call.log) = call.sold
        /\ \A j \in DOMAIN call.log :
              /\ \E k \in DOMAIN call.before : call.before[k] = call.log[j].lot
              /\ call.log[j].units >= 1
              /\ call.log[j].units <= call.log[j].lot.portions
        /\ call.revenue = RevenueOfLog(call.log)

\* A sale over two lots of different prices: the first is emptied, the
\* second gives a part.
C24_Witness ==
    /\ IsSale
    /\ Len(call.before) = 2
    /\ call.before[1].selling_price # call.before[2].selling_price
    /\ Len(call.log) = 2
    /\ call.sold = call.qty
    /\ call.sold < total_finished_portions(call.before)
    /\ call.revenue = call.before[1].portions * call.before[1].selling_price
                      + (call.sold - call.before[1].portions)
                        * call.before[2].selling_price

IsTurnStart == call.op = "turn_start"

\* The lots of a list whose expiry turn is t or later, in their order.
LotsLivingAt(finished, t) == SelectSeq(finished, LAMBDA b : b.expires_tour >= t)

IsClampCapacity == call.op = "clamp_capacity"

PlayShape ==
    /\ current_tour >= 1 /\ current_tour <= scenario.nb_tours + 1
    /\ pc = "done" => current_tour = scenario.nb_tours + 1
    /\ pc = "vendor" =>
          /\ current_tour <= scenario.nb_tours
          /\ Len(turn_log) = index_restaurant - 1
          /\ Len(turn_log) <= Len(restaurants)
          /\ \A k \in DOMAIN turn_log :
                turn_log[k].index = k /\ turn_log[k].tour = current_tour
    /\ IsTurnStart =>
          /\ call.tour = current_tour
          /\ turn_log = <<>>
          /\ attrib = allocate_demand(restaurants, scenario).allocated
          /\ \A i \in DOMAIN restaurants :
                restaurants[i]
                  = reset_rh_minutes(
                        [call.restaurants_before[i] EXCEPT
                            !.finished = cleanup_expired(@, call.tour)])

\* C30: Game.play started at current_tour = 1 with nb_tours = n >= 1
\* returns, after exactly n turns: the turns are 1, 2, ..., n, one after
\* the other.  The head of each turn cleans the expired lots, resets the
\* staff minutes and allocates; then every vendor is settled exactly once,
\* in list order, before the turn ends.
C30_PlayTerminatesAfterNTurns ==
    /\ <>(pc = "done")
    /\ []PlayShape
    /\ [][/\ \/ current_tour' = current_tour
             \/ /\ current_tour' = current_tour + 1
                /\ pc = "vendor"
                /\ Len(turn_log) = Len(restaurants)
          /\ IsSettle' => pc = "vendor" /\ call'.index = index_restaurant]_vars

====
